---- MODULE Spec2Model ----
(***************************************************************************)
(* Sources/CZLib/include/shim.h: the header that guards itself with        *)
(* zlib_shim_h, tests __unix__, imports <stdio.h> and <zlib.h> and gives   *)
(* the three large-file macros a default when they are not yet defined.    *)
(*                                                                         *)
(* The header is modelled as its 24 lines of text, processed one line at a *)
(* time by the C preprocessor: the macro table, the set of imported files, *)
(* the position in the header and the conditional-group nesting are the    *)
(* state.  The translation unit that includes the header (the consumer)    *)
(* chooses the platform and the pre-defined flags, includes the header,    *)
(* and may #define / #undef a flag between two inclusions.                 *)
(***************************************************************************)
EXTENDS Integers, Sequences, FiniteSets, TLC

(* ------------------------------ bounds --------------------------------- *)
\* how many times the consumer includes the header in one compile unit
MaxIncludes == 2
\* how many #define / #undef edits the consumer makes between inclusions
MaxEdits == 1

(* ----------------------------- macro table ----------------------------- *)
\* the three large-file feature macros the header configures
Flags == {"_LARGEFILE64_SOURCE", "_FILE_OFFSET_BITS", "_LFS64_LARGEFILE"}

\* replacement texts a consumer gives a flag on its own
Bodies == {"1", "32", "64"}

\* a macro table with no macro in it
NoMacros == [n \in {} |-> ""]

\* #ifdef / defined(): is name a macro of table d
IsDefined(d, name) == name \in DOMAIN d

\* #define name body: name is bound to body, whatever it was before
Define(d, name, body) == [n \in DOMAIN d \cup {name} |-> IF n = name THEN body ELSE d[n]]

\* #undef name
Undefine(d, name) == [n \in DOMAIN d \ {name} |-> d[n]]

\* a #define of a macro that already has a different replacement text is an
\* incompatible redefinition, which the preprocessor diagnoses
Redefines(d, name, body) == IsDefined(d, name) /\ d[name] # body

\* the part of a macro table that concerns the three flags
FlagsOf(d) == [n \in DOMAIN d \cap Flags |-> d[n]]

(* ------------------------------ the header ----------------------------- *)
Text == [op |-> "text", name |-> "", body |-> ""]
Ifndef(name) == [op |-> "ifndef", name |-> name, body |-> ""]
Ifdef(name) == [op |-> "ifdef", name |-> name, body |-> ""]
DefineAs(name, body) == [op |-> "define", name |-> name, body |-> body]
Import(file) == [op |-> "import", name |-> file, body |-> ""]
Endif == [op |-> "endif", name |-> "", body |-> ""]

\* lines 1-3: the include guard is tested and set
\*   variant: the #define of the guard is missing
GuardOpenNeverSet == << Ifndef("zlib_shim_h"), Text, Text >>
\*   variant: the #define names a macro other than the one tested
GuardOpenMisspelt == << Ifndef("zlib_shim_h"), DefineAs("zlib_shim_H", ""), Text >>
GuardOpen == << Ifndef("zlib_shim_h"), DefineAs("zlib_shim_h", ""), Text >>

\* lines 4-5: the platform test
\*   variant: #ifndef written for #ifdef
PlatformOpenInverted == << Ifndef("__unix__"), Text >>
PlatformOpen == << Ifdef("__unix__"), Text >>

\* lines 6-8: the C library's stdio and the compression library
Imports == << Import("stdio.h"), Import("zlib.h"), Text >>

\* lines 9-12: _LARGEFILE64_SOURCE defaults to 1
\*   variant: the test names the next flag instead of this one
LargeFile64SourceWrongTest ==
  << Text, Ifndef("_FILE_OFFSET_BITS"), DefineAs("_LARGEFILE64_SOURCE", "1"), Endif >>
LargeFile64Source ==
  << Text, Ifndef("_LARGEFILE64_SOURCE"), DefineAs("_LARGEFILE64_SOURCE", "1"), Endif >>

\* lines 13-16: _FILE_OFFSET_BITS defaults to 64
\*   variant: the #define is not wrapped in #ifndef / #endif
FileOffsetBitsForced ==
  << Text, Text, DefineAs("_FILE_OFFSET_BITS", "64"), Text >>
FileOffsetBits ==
  << Text, Ifndef("_FILE_OFFSET_BITS"), DefineAs("_FILE_OFFSET_BITS", "64"), Endif >>

\* lines 17-20: _LFS64_LARGEFILE defaults to 1
\*   variant: the #define has no replacement text
Lfs64LargeFileNoValue ==
  << Text, Ifndef("_LFS64_LARGEFILE"), DefineAs("_LFS64_LARGEFILE", ""), Endif >>
Lfs64LargeFile ==
  << Text, Ifndef("_LFS64_LARGEFILE"), DefineAs("_LFS64_LARGEFILE", "1"), Endif >>

\* lines 21-24: the platform group and the include guard are closed
\*   variant: the last #endif is missing
CloseUnterminated == << Text, Endif, Text, Text >>
Close == << Text, Endif, Text, Endif >>

\* variant: the header with the platform group closed right after the imports
HeaderPlatformClosedEarly ==
  GuardOpen \o PlatformOpen \o << Import("stdio.h"), Import("zlib.h"), Endif >>
    \o LargeFile64Source \o FileOffsetBits \o Lfs64LargeFile
    \o << Text, Text, Text, Endif >>

\* variant: the header relying on #import instead of a guard, with _LARGEFILE64_SOURCE
\* made to depend on _LFS64_LARGEFILE, which is only defaulted further down
HeaderUnguardedOrderDependent ==
  << Text, Text, Text >> \o PlatformOpen \o Imports
    \o << Text, Ifdef("_LFS64_LARGEFILE"), DefineAs("_LARGEFILE64_SOURCE", "1"), Endif >>
    \o FileOffsetBits \o Lfs64LargeFile
    \o << Text, Endif, Text, Text >>

\* shim.h, line by line (a blank line or a comment is Text)
Header ==
  GuardOpen \o PlatformOpen \o Imports
    \o LargeFile64Source \o FileOffsetBits \o Lfs64LargeFile \o Close

(* ------------------------------- state --------------------------------- *)
VARIABLES
  defs,         \* the macro table of the compile unit
  imported,     \* the files #import has brought in so far
  pc,           \* 0: in the consumer's code; n: about to process line n
  open,         \* number of conditional groups currently open in the header
  skipFrom,     \* 0: lines are processed; k: group k failed, lines are skipped
  diag,         \* the diagnostic the preprocessor has issued, "none" if none
  includes,     \* inclusions of the header started so far
  edits,        \* consumer edits of a flag made so far
  fresh,        \* an inclusion has ended and the consumer changed nothing since
  pre,          \* the macro table when the latest inclusion started
  preImported,  \* the imported files when the latest inclusion started
  atImport,     \* the macro table at the moment <zlib.h> was brought in
  once          \* flags and imported files when the first inclusion ended

vars == << defs, imported, pc, open, skipFrom, diag, includes, edits, fresh,
           pre, preImported, atImport, once >>

hist == << pre, preImported, atImport, once >>

\* the line the preprocessor is about to process
Line == Header[pc]

InHeader == pc \in 1..Len(Header)

Active == skipFrom = 0

\* the consumer's compile unit before the first inclusion: the compiler
\* defines __unix__ or not, the build pre-defines any subset of the flags
Init ==
  /\ \E S \in SUBSET Flags : \E f \in [S -> Bodies] : \E unix \in BOOLEAN :
        defs = IF unix THEN Define(f, "__unix__", "1") ELSE f
  /\ imported = {}
  /\ pc = 0
  /\ open = 0
  /\ skipFrom = 0
  /\ diag = "none"
  /\ includes = 0
  /\ edits = 0
  /\ fresh = FALSE
  /\ pre = NoMacros
  /\ preImported = {}
  /\ atImport = NoMacros
  /\ once = [flags |-> NoMacros, imported |-> {}]

(* ------------------------------ consumer ------------------------------- *)
\* #include "shim.h"
Include ==
  /\ pc = 0
  /\ includes < MaxIncludes
  /\ pc' = 1
  /\ open' = 0
  /\ skipFrom' = 0
  /\ includes' = includes + 1
  /\ fresh' = FALSE
  /\ pre' = defs
  /\ preImported' = imported
  /\ UNCHANGED << defs, imported, diag, edits, atImport, once >>

\* between two inclusions the consumer gives a flag a value of its own
ConsumerDefine ==
  /\ pc = 0
  /\ includes >= 1
  /\ edits < MaxEdits
  /\ \E f \in Flags : \E b \in Bodies : defs' = Define(Undefine(defs, f), f, b)
  /\ edits' = edits + 1
  /\ fresh' = FALSE
  /\ UNCHANGED << imported, pc, open, skipFrom, diag, includes, hist >>

\* between two inclusions the consumer #undefs a flag
ConsumerUndef ==
  /\ pc = 0
  /\ includes >= 1
  /\ edits < MaxEdits
  /\ \E f \in Flags : defs' = Undefine(defs, f)
  /\ edits' = edits + 1
  /\ fresh' = FALSE
  /\ UNCHANGED << imported, pc, open, skipFrom, diag, includes, hist >>

(* --------------------------- the preprocessor -------------------------- *)
\* a conditional directive opens a group; in a skipped group it only nests,
\* otherwise the group is skipped when its condition is false
OpenGroup(taken) ==
  /\ open' = open + 1
  /\ skipFrom' = IF Active /\ ~taken THEN open + 1 ELSE skipFrom
  /\ pc' = pc + 1
  /\ UNCHANGED << defs, imported, diag, includes, edits, fresh, hist >>

\* #ifndef name
StepIfndef ==
  /\ InHeader
  /\ Line.op = "ifndef"
  /\ OpenGroup(~IsDefined(defs, Line.name))

\* #ifdef name
StepIfdef ==
  /\ InHeader
  /\ Line.op = "ifdef"
  /\ OpenGroup(IsDefined(defs, Line.name))

\* #define name body
StepDefine ==
  /\ InHeader
  /\ Line.op = "define"
  /\ defs' = IF Active THEN Define(defs, Line.name, Line.body) ELSE defs
  /\ diag' = IF Active /\ Redefines(defs, Line.name, Line.body)
             THEN "redefined" ELSE diag
  /\ pc' = pc + 1
  /\ UNCHANGED << imported, open, skipFrom, includes, edits, fresh, hist >>

\* #import <file>: the file's declarations become visible, once per unit
StepImport ==
  /\ InHeader
  /\ Line.op = "import"
  /\ imported' = IF Active THEN imported \cup {Line.name} ELSE imported
  /\ atImport' = IF Active /\ Line.name = "zlib.h" /\ Line.name \notin imported
                 THEN defs ELSE atImport
  /\ pc' = pc + 1
  /\ UNCHANGED << defs, open, skipFrom, diag, includes, edits, fresh,
                  pre, preImported, once >>

\* #endif closes the innermost open group and ends the skipping it started
StepEndif ==
  /\ InHeader
  /\ Line.op = "endif"
  /\ open' = IF open > 0 THEN open - 1 ELSE 0
  /\ skipFrom' = IF skipFrom = open THEN 0 ELSE skipFrom
  /\ diag' = IF open = 0 THEN "unbalanced" ELSE diag
  /\ pc' = pc + 1
  /\ UNCHANGED << defs, imported, includes, edits, fresh, hist >>

\* a blank line or a comment
StepText ==
  /\ InHeader
  /\ Line.op = "text"
  /\ pc' = pc + 1
  /\ UNCHANGED << defs, imported, open, skipFrom, diag, includes, edits,
                  fresh, hist >>

\* the end of the header: back in the consumer's code
EndOfFile ==
  /\ pc = Len(Header) + 1
  /\ pc' = 0
  /\ diag' = IF open > 0 THEN "unbalanced" ELSE diag
  /\ open' = 0
  /\ skipFrom' = 0
  /\ fresh' = TRUE
  /\ once' = IF includes = 1
             THEN [flags |-> FlagsOf(defs), imported |-> imported] ELSE once
  /\ UNCHANGED << defs, imported, includes, edits, pre, preImported, atImport >>

Next ==
  \/ Include
  \/ ConsumerDefine
  \/ ConsumerUndef
  \/ StepIfndef
  \/ StepIfdef
  \/ StepDefine
  \/ StepImport
  \/ StepEndif
  \/ StepText
  \/ EndOfFile

Spec == Init /\ [][Next]_vars

\* an inclusion that has started is processed line by line to the end of the
\* header; the consumer is free to include again, to edit a flag, or to stop
HeaderStep ==
  StepIfndef \/ StepIfdef \/ StepDefine \/ StepImport \/ StepEndif \/ StepText
    \/ EndOfFile

FairSpec == Spec /\ WF_vars(HeaderStep)

(* ------------------------------ properties ----------------------------- *)
\* the compiler targets a Unix-like platform
Unix == IsDefined(defs, "__unix__")

\* an inclusion has been processed to its end and nothing has happened since
Done == pc = 0 /\ fresh

\* the first inclusion of the compile unit has just ended
FirstDone == Done /\ includes = 1

\* the defaults the specification documents for the three flags
DocumentedDefault ==
  [f \in Flags |-> IF f = "_FILE_OFFSET_BITS" THEN "64" ELSE "1"]

\* the configuration the specification describes: the consumer's value where
\* there is one, the documented default elsewhere
Effective(d) ==
  [f \in Flags |-> IF IsDefined(d, f) THEN d[f] ELSE DocumentedDefault[f]]

\* C1: on a Unix-like platform, at the point where the declarations of zlib.h
\* are made visible, each of the three flags is already defined with its
\* effective value (the consumer's value or the default).
C1_FlagsConfiguredBeforeLibrary ==
  (includes = 1 /\ "zlib.h" \in imported) =>
     \A f \in Flags : IsDefined(atImport, f) /\ atImport[f] = Effective(pre)[f]

\* C2: on a Unix-like platform, a flag that is defined with value V before
\* the configuration step is still defined with value V after it.
C2_PredefinedFlagKept ==
  (Done /\ Unix) =>
     \A f \in Flags : IsDefined(pre, f) => IsDefined(defs, f) /\ defs[f] = pre[f]

C2_Witness ==
  /\ FirstDone /\ Unix
  /\ IsDefined(pre, "_FILE_OFFSET_BITS") /\ pre["_FILE_OFFSET_BITS"] = "32"
  /\ IsDefined(pre, "_LFS64_LARGEFILE") /\ pre["_LFS64_LARGEFILE"] = "64"
  /\ defs["_FILE_OFFSET_BITS"] = "32"

\* C3: on a Unix-like platform, each flag that is undefined before the
\* configuration step has its documented default after it (1, 64, 1); with no
\* flag pre-defined the result is exactly (1, 64, 1).
C3_UndefinedFlagDefaulted ==
  (FirstDone /\ Unix) =>
     /\ \A f \in Flags : ~IsDefined(pre, f) =>
           IsDefined(defs, f) /\ defs[f] = DocumentedDefault[f]
     /\ FlagsOf(pre) = NoMacros => FlagsOf(defs) = DocumentedDefault

C3_Witness ==
  /\ FirstDone /\ Unix
  /\ FlagsOf(pre) = NoMacros
  /\ defs["_LARGEFILE64_SOURCE"] = "1"
  /\ defs["_FILE_OFFSET_BITS"] = "64"
  /\ defs["_LFS64_LARGEFILE"] = "1"

\* C4: on a non-Unix platform the configuration step is a no-op on the flags
\* and the library: every flag has the definedness and value it had before,
\* and the declarations of zlib.h are not exposed.
C4_NonUnixNoOp ==
  (Done /\ ~Unix) =>
     /\ FlagsOf(defs) = FlagsOf(pre)
     /\ "zlib.h" \notin imported

C4_Witness ==
  /\ FirstDone /\ ~Unix
  /\ ~IsDefined(defs, "_LARGEFILE64_SOURCE")
  /\ IsDefined(defs, "_FILE_OFFSET_BITS") /\ defs["_FILE_OFFSET_BITS"] = "32"

\* C5 as stated: the only macros whose definedness changes across the step
\* are the three flags, and on a non-Unix platform nothing is defined at all.
C5_OnlyFlagsDefined ==
  Done =>
     /\ (DOMAIN defs \ DOMAIN pre) \subseteq Flags
     /\ ~Unix => DOMAIN defs = DOMAIN pre

\* C5 amended: the only macros whose definedness changes across the step are
\* the three flags and the include guard zlib_shim_h; on a non-Unix platform
\* the first inclusion defines the include guard and nothing else, and no
\* file is imported; no macro is ever undefined by the step.
C5_OnlyFlagsAndGuardDefined ==
  Done =>
     /\ (DOMAIN defs \ DOMAIN pre) \subseteq (Flags \cup {"zlib_shim_h"})
     /\ DOMAIN pre \subseteq DOMAIN defs
     /\ ~Unix => (DOMAIN defs \ DOMAIN pre) \subseteq {"zlib_shim_h"}
     /\ ~Unix => imported = {}
     /\ FirstDone => IsDefined(defs, "zlib_shim_h") /\ ~IsDefined(pre, "zlib_shim_h")

C5_Witness ==
  /\ FirstDone /\ ~Unix
  /\ DOMAIN defs \ DOMAIN pre = {"zlib_shim_h"}

\* C6: running the configuration step twice in a row yields the same values
\* of the three flags and the same library exposure as running it once.
C6_TwiceAsOnce ==
  (Done /\ includes >= 2 /\ edits = 0) =>
     /\ FlagsOf(defs) = once.flags
     /\ imported = once.imported

C6_Witness ==
  /\ Done /\ includes = 2 /\ edits = 0 /\ Unix
  /\ FlagsOf(defs) = DocumentedDefault
  /\ "zlib.h" \in imported

\* C7: on a Unix-like platform the flags are configured independently: the
\* flags the consumer pre-defined keep its values, every other flag has its
\* default; _FILE_OFFSET_BITS pre-defined as 32 stays 32 while the other two
\* become 1.
C7_FlagsIndependent ==
  (FirstDone /\ Unix) => FlagsOf(defs) = Effective(pre)

C7_Witness ==
  /\ FirstDone /\ Unix
  /\ DOMAIN FlagsOf(pre) = {"_FILE_OFFSET_BITS"}
  /\ pre["_FILE_OFFSET_BITS"] = "32"
  /\ defs["_FILE_OFFSET_BITS"] = "32"
  /\ defs["_LARGEFILE64_SOURCE"] = "1"
  /\ defs["_LFS64_LARGEFILE"] = "1"

\* C8: after the step the library's interface is exposed if and only if the
\* platform is Unix-like, whatever flags were pre-defined.
C8_ExposedIffUnix ==
  Done => ("zlib.h" \in imported <=> Unix)

C8_Witness ==
  /\ FirstDone /\ Unix /\ "zlib.h" \in imported
  /\ IsDefined(pre, "_LARGEFILE64_SOURCE") /\ pre["_LARGEFILE64_SOURCE"] = "32"

\* the step reports nothing, and it either fills in the defaults of the
\* undefined flags or leaves the flags as they were
C9_NoErrorOutcome ==
  /\ diag = "none"
  /\ Done => FlagsOf(defs) \in {FlagsOf(pre), Effective(pre)}
  /\ (Done /\ (~Unix \/ DOMAIN FlagsOf(pre) = Flags)) => FlagsOf(defs) = FlagsOf(pre)

\* C9: the configuration step has no error outcome: for every platform and
\* initial flag state it completes without a diagnostic, and it either sets
\* the defaults of the undefined flags or changes nothing (nothing when the
\* platform is non-Unix or all three flags are already defined).
C9_CompletesWithoutError ==
  /\ []C9_NoErrorOutcome
  /\ (pc # 0) ~> Done

C9_Witness ==
  /\ FirstDone /\ Unix /\ diag = "none"
  /\ DOMAIN FlagsOf(pre) = Flags
  /\ pre["_FILE_OFFSET_BITS"] = "32"
  /\ FlagsOf(defs) = FlagsOf(pre)

\* C10: the step takes effect at most once per compile unit: a later
\* inclusion changes no flag and exposes nothing new, even if the consumer
\* undefined or redefined a flag in between (an undefined flag is not
\* defaulted again).
C10_AtMostOnce ==
  (Done /\ includes >= 2) =>
     /\ FlagsOf(defs) = FlagsOf(pre)
     /\ imported = preImported

C10_Witness ==
  /\ Done /\ includes = 2 /\ Unix /\ edits = 1
  /\ ~IsDefined(defs, "_FILE_OFFSET_BITS")
  /\ IsDefined(once.flags, "_FILE_OFFSET_BITS")

====
